---- MODULE Spec2Model ----
(***************************************************************************)
(* A model of main.py: the type_check decorator and the four Person        *)
(* record variants (dataclass, Pydantic, Marshmallow, attrs).              *)
(*                                                                         *)
(* Text is a sequence of one-character strings, so that rendering,         *)
(* e-mail validation and e-mail normalisation are computed character by    *)
(* character.  One behaviour is one scenario: either the construction of   *)
(* one record from raw keyword arguments, followed by an attribute write   *)
(* of the caller, or one call of a function wrapped by type_check.         *)
(***************************************************************************)
EXTENDS Integers, Sequences, FiniteSets

VARIABLES
    variant,   \* which class the scenario uses, "decorator" for type_check
    kwargs,    \* the raw keyword arguments (the dict given to load())
    pc,        \* "raw", "record", "written", "rejected"; "call", "executed", "raised"
    obj,       \* the value the constructor / load() returned
    exc,       \* the exception class that ended the operation, or "None"
    errors,    \* the fields the raised exception reports
    deco,      \* type_check scenario: [follows, types, fname, args]
    ran        \* type_check scenario: the wrapped function body was executed

vars == <<variant, kwargs, pc, obj, exc, errors, deco, ran>>

(***************************************************************************)
(* Bounds of the model.                                                    *)
(***************************************************************************)
MaxAge == 1
MaxEmailLen == 6
MaxArgs == 2
MaxPatLen == 2

\* the name and the age of the demonstration entry point
DemoName == <<"J", "o", "h", "n">>
DemoAge == 30

(***************************************************************************)
(* Text.                                                                   *)
(***************************************************************************)
RECURSIVE Strings(_, _)
Strings(alphabet, n) ==
    IF n = 0 THEN {<<>>}
    ELSE LET shorter == Strings(alphabet, n - 1)
         IN  shorter \cup {Append(s, c) : s \in {t \in shorter : Len(t) = n - 1},
                                          c \in alphabet}

EmailChars == {"a", "B", "@", "."}

\* the empty name, a whitespace-only name and a name proper
Names == {<<>>, <<" ">>, DemoName}
Ages == ((0 - MaxAge) .. MaxAge) \cup {DemoAge}
Emails == Strings(EmailChars, MaxEmailLen)

Fields == {"name", "age", "email"}

Digit(d) == CASE d = 0 -> "0" [] d = 1 -> "1" [] d = 2 -> "2" [] d = 3 -> "3"
              [] d = 4 -> "4" [] d = 5 -> "5" [] d = 6 -> "6" [] d = 7 -> "7"
              [] d = 8 -> "8" [] d = 9 -> "9"

RECURSIVE NatToStr(_)
NatToStr(n) == IF n < 10 THEN <<Digit(n)>>
               ELSE Append(NatToStr(n \div 10), Digit(n % 10))

\* format(int) inside an f-string
IntToStr(n) == IF n < 0 THEN <<"-">> \o NatToStr(0 - n) ELSE NatToStr(n)

\* repr(str) for text without quotes or escapes
StrRepr(s) == <<"'">> \o s \o <<"'">>

(***************************************************************************)
(* E-mail validation of the two libraries, on the characters of            *)
(* EmailChars (letters, "@" and ".").                                      *)
(***************************************************************************)
Letters == {"a", "b", "B"}

Lower(c) == IF c = "B" THEN "b" ELSE c

LowerStr(s) == [i \in 1 .. Len(s) |-> Lower(s[i])]

\* str.find / str.rfind, 1-based, 0 when the character is absent
FirstIndex(s, c) ==
    IF \E i \in 1 .. Len(s) : s[i] = c
    THEN CHOOSE i \in 1 .. Len(s) : s[i] = c /\ \A j \in 1 .. (i - 1) : s[j] # c
    ELSE 0

LastIndex(s, c) ==
    IF \E i \in 1 .. Len(s) : s[i] = c
    THEN CHOOSE i \in 1 .. Len(s) : s[i] = c /\ \A j \in (i + 1) .. Len(s) : s[j] # c
    ELSE 0

Before(s, i) == SubSeq(s, 1, i - 1)
After(s, i) == SubSeq(s, i + 1, Len(s))

\* atoms of letters separated by single dots: no leading, trailing or double dot
IsDotAtom(s) ==
    /\ Len(s) > 0
    /\ \A i \in 1 .. Len(s) : s[i] \in Letters \cup {"."}
    /\ s[1] # "."
    /\ s[Len(s)] # "."
    /\ \A i \in 1 .. (Len(s) - 1) : ~(s[i] = "." /\ s[i + 1] = ".")

\* marshmallow.validate.Email: split at the last "@", USER_REGEX on the user
\* part, DOMAIN_REGEX on the domain part (labels each followed by a dot, then a
\* top-level label of at least two characters)
MarshmallowEmailOk(s) ==
    /\ Len(s) > 0
    /\ LastIndex(s, "@") # 0
    /\ LET at == LastIndex(s, "@")
           user == Before(s, at)
           domain == After(s, at)
       IN  /\ IsDotAtom(user)
           /\ IsDotAtom(domain)
           /\ LastIndex(domain, ".") # 0
           /\ Len(domain) - LastIndex(domain, ".") >= 2

\* pydantic EmailStr (email_validator.validate_email without deliverability):
\* local part up to the first "@", dot-atom local part, domain a dot-atom
\* that contains a period
EmailStrOk(s) ==
    /\ FirstIndex(s, "@") # 0
    /\ LET at == FirstIndex(s, "@")
           local == Before(s, at)
           domain == After(s, at)
       IN  /\ IsDotAtom(local)
           /\ IsDotAtom(domain)
           /\ FirstIndex(domain, ".") # 0

\* EmailStr without normalisation: the address as given
EmailStrValue_AsGiven(s) == s

\* the value an EmailStr field holds: the normalised address, domain lower-cased
EmailStrValue(s) ==
    LET at == FirstIndex(s, "@")
    IN  Before(s, at) \o <<"@">> \o LowerStr(After(s, at))

(***************************************************************************)
(* The four variants.  Each constructor maps the keyword arguments to an   *)
(* outcome: the value returned, or the exception raised and the fields it  *)
(* reports.                                                                *)
(***************************************************************************)
NoObj == <<>>

Returned(o) == [pc |-> "record", obj |-> o, exc |-> "None", errors |-> {}]
Raised(e, fs) == [pc |-> "rejected", obj |-> NoObj, exc |-> e, errors |-> fs]

Given(kw, f) == f \in DOMAIN kw

\* the generated __init__ of a class whose age and email fields have defaults
WithDefaults(kw) ==
    [name |-> kw["name"],
     age |-> IF Given(kw, "age") THEN kw["age"] ELSE 0,
     email |-> IF Given(kw, "email") THEN kw["email"] ELSE <<>>]

\* "not x" on a str
Falsy(s) == Len(s) = 0

PersonWithDataclass(kw) ==
    IF ~Given(kw, "name") THEN Raised("TypeError", {"name"})
    ELSE LET self == WithDefaults(kw)
         IN  IF Falsy(self.name) THEN Raised("ValueError", {"name"})
             ELSE Returned(self)

PydanticFieldErrors(kw) ==
    {f \in Fields : ~Given(kw, f)}
    \cup {f \in {"name"} : Given(kw, f) /\ Falsy(kw[f])}
    \cup {f \in {"age"} : Given(kw, f) /\ ~(kw[f] > 0)}
    \cup {f \in {"email"} : Given(kw, f) /\ ~EmailStrOk(kw[f])}

PersonWithPydantic(kw) ==
    IF PydanticFieldErrors(kw) # {}
    THEN Raised("ValidationError", PydanticFieldErrors(kw))
    ELSE Returned([name |-> kw["name"], age |-> kw["age"],
                   email |-> EmailStrValue(kw["email"])])

MarshmallowFieldErrors(kw) ==
    {f \in Fields : ~Given(kw, f)}
    \cup {f \in {"name"} : Given(kw, f) /\ Len(kw[f]) < 1}
    \cup {f \in {"email"} : Given(kw, f) /\ ~MarshmallowEmailOk(kw[f])}

\* a schema hook that checks nothing
validate_age_NoCheck(data) == {}

\* the @validates_schema hook, run only when no field failed
validate_age(data) == IF data["age"] <= 0 THEN {"_schema"} ELSE {}

\* PersonWithMarshmallow().load(kw): the result is the deserialised dict
PersonWithMarshmallow(kw) ==
    IF MarshmallowFieldErrors(kw) # {}
    THEN Raised("MarshmallowValidationError", MarshmallowFieldErrors(kw))
    ELSE LET data == [name |-> kw["name"], age |-> kw["age"], email |-> kw["email"]]
         IN  IF validate_age(data) # {}
             THEN Raised("MarshmallowValidationError", validate_age(data))
             ELSE Returned(data)

\* the @name.validator hook
validate_name(value) == Falsy(value)

PersonWithAttrs(kw) ==
    IF ~Given(kw, "name") THEN Raised("TypeError", {"name"})
    ELSE LET self == WithDefaults(kw)
         IN  IF validate_name(self.name) THEN Raised("ValueError", {"name"})
             ELSE Returned(self)

(***************************************************************************)
(* Rendering.                                                              *)
(***************************************************************************)
\* f"{self.name} {self.age} {self.email}"
PersonStr(self) ==
    self.name \o <<" ">> \o IntToStr(self.age) \o <<" ">> \o self.email

DataclassName ==
    <<"P", "e", "r", "s", "o", "n", "W", "i", "t", "h",
      "D", "a", "t", "a", "c", "l", "a", "s", "s">>
PydanticName ==
    <<"P", "e", "r", "s", "o", "n", "W", "i", "t", "h",
      "P", "y", "d", "a", "n", "t", "i", "c">>
AttrsName ==
    <<"P", "e", "r", "s", "o", "n", "W", "i", "t", "h", "A", "t", "t", "r", "s">>

\* f"{self.__class__.__name__}({self.name} {self.age} {self.email})"
PersonRepr(typeName, self) == typeName \o <<"(">> \o PersonStr(self) \o <<")">>

\* the __repr__ attrs generates: PersonWithAttrs(name='J', age=1, email='')
AttrsRepr(self) ==
    AttrsName \o <<"(", "n", "a", "m", "e", "=">> \o StrRepr(self.name)
    \o <<",", " ", "a", "g", "e", "=">> \o IntToStr(self.age)
    \o <<",", " ", "e", "m", "a", "i", "l", "=">> \o StrRepr(self.email)
    \o <<")">>

\* repr of the dict load() returns: {'name': 'J', 'age': 1, 'email': ''}
DictRepr(d) ==
    <<"{", "'", "n", "a", "m", "e", "'", ":", " ">> \o StrRepr(d["name"])
    \o <<",", " ", "'", "a", "g", "e", "'", ":", " ">> \o IntToStr(d["age"])
    \o <<",", " ", "'", "e", "m", "a", "i", "l", "'", ":", " ">> \o StrRepr(d["email"])
    \o <<"}">>

\* str(x) of the value a variant returns
Str(v, x) == IF v = "marshmallow" THEN DictRepr(x) ELSE PersonStr(x)

\* repr(x) of the value a variant returns
Repr(v, x) ==
    CASE v = "dataclass" -> PersonRepr(DataclassName, x)
      [] v = "pydantic" -> PersonRepr(PydanticName, x)
      [] v = "marshmallow" -> DictRepr(x)
      [] v = "attrs" -> AttrsRepr(x)

(***************************************************************************)
(* type_check.  An argument is modelled by its class, a pattern is a       *)
(* sequence of literal characters and "." (any character).                 *)
(***************************************************************************)
PyNone == [cls |-> "NoneType", val |-> <<>>]
PyStr(s) == [cls |-> "str", val |-> s]

FnChars == {"f", "g"}
PatChars == FnChars \cup {"."}
ArgClasses == {"int", "str", "bool"}
TypeNames == {"int", "str"}

\* isinstance(arg, typ): bool is a subclass of int
IsInstance(c, t) == c = t \/ (c = "bool" /\ t = "int")

\* re.match(pattern, text): the pattern matches at the start of the text
ReMatch(pattern, text) ==
    /\ Len(pattern) <= Len(text)
    /\ \A i \in 1 .. Len(pattern) : pattern[i] = "." \/ pattern[i] = text[i]

Min(a, b) == IF a < b THEN a ELSE b

\* all(isinstance(arg, typ) for arg, typ in zip(args, types))
TypesOk(args, types) ==
    \A i \in 1 .. Min(Len(args), Len(types)) : IsInstance(args[i], types[i])

\* the name policy without the "not follows" test on a str
NameRejected_EmptyPatternAllowed(follows, fname) ==
    \/ follows.cls = "NoneType"
    \/ ~ReMatch(follows.val, fname)

\* "not follows or not re.match(follows, func.__name__)"
NameRejected(follows, fname) ==
    \/ follows.cls = "NoneType"
    \/ Falsy(follows.val)
    \/ ~ReMatch(follows.val, fname)

\* the wrapper: the exception raised, or "None" when func is called
wrapper(d) ==
    IF ~TypesOk(d.args, d.types) THEN "TypeError"
    ELSE IF NameRejected(d.follows, d.fname) THEN "ValueError"
    ELSE "None"

(***************************************************************************)
(* Scenarios.                                                              *)
(***************************************************************************)
Variants == {"dataclass", "pydantic", "marshmallow", "attrs"}

\* the keyword arguments n, a, e restricted to the fields of S
Kwargs(S, n, a, e) ==
    [f \in S |-> CASE f = "name" -> n [] f = "age" -> a [] f = "email" -> e]

Patterns == Strings(PatChars, MaxPatLen)
FnNames == Strings(FnChars, MaxPatLen) \ {<<>>}
Follows == {PyNone} \cup {PyStr(p) : p \in Patterns}

NoDeco == [follows |-> PyNone, types |-> <<>>, fname |-> <<>>, args |-> <<>>]

RecordInit ==
    /\ variant \in Variants
    \* the caller always passes name, and may omit age and email
    /\ \E S \in {T \in SUBSET Fields : "name" \in T} :
           \E n \in Names :
               \E a \in IF "age" \in S THEN Ages ELSE {0} :
                   \E e \in IF "email" \in S THEN Emails ELSE {<<>>} :
                       kwargs = Kwargs(S, n, a, e)
    /\ pc = "raw"
    /\ deco = NoDeco

DecoratorInit ==
    /\ variant = "decorator"
    /\ kwargs = <<>>
    /\ pc = "call"
    /\ deco \in [follows : Follows,
                 types : Strings(TypeNames, MaxArgs),
                 fname : FnNames,
                 args : Strings(ArgClasses, MaxArgs)]

Init ==
    /\ RecordInit \/ DecoratorInit
    /\ obj = NoObj
    /\ exc = "None"
    /\ errors = {}
    /\ ran = FALSE

\* one construction: raw input to a record or to a rejection
Create(outcome) ==
    /\ pc = "raw"
    /\ pc' = outcome.pc
    /\ obj' = outcome.obj
    /\ exc' = outcome.exc
    /\ errors' = outcome.errors
    /\ UNCHANGED <<variant, kwargs, deco, ran>>

NewDataclass ==
    /\ variant = "dataclass"
    /\ Create(PersonWithDataclass(kwargs))

NewPydantic ==
    /\ variant = "pydantic"
    /\ Create(PersonWithPydantic(kwargs))

LoadMarshmallow ==
    /\ variant = "marshmallow"
    /\ Create(PersonWithMarshmallow(kwargs))

NewAttrs ==
    /\ variant = "attrs"
    /\ Create(PersonWithAttrs(kwargs))

\* the values a caller writes into a field
WriteValues(f) ==
    CASE f = "name" -> {<<>>}
      [] f = "age" -> {0}
      [] f = "email" -> {<<>>}

\* x.f = value (d[f] = value on the dict): none of the classes is frozen and
\* none validates on assignment
SetAttr ==
    /\ pc = "record"
    /\ \E f \in Fields : \E value \in WriteValues(f) :
           obj' = [obj EXCEPT ![f] = value]
    /\ pc' = "written"
    /\ UNCHANGED <<variant, kwargs, exc, errors, deco, ran>>

\* one call of the wrapped function
Call ==
    /\ pc = "call"
    /\ exc' = wrapper(deco)
    /\ ran' = (wrapper(deco) = "None")
    /\ pc' = IF wrapper(deco) = "None" THEN "executed" ELSE "raised"
    /\ UNCHANGED <<variant, kwargs, obj, errors, deco>>

Next ==
    \/ NewDataclass
    \/ NewPydantic
    \/ LoadMarshmallow
    \/ NewAttrs
    \/ SetAttr
    \/ Call

Spec == Init /\ [][Next]_vars

(***************************************************************************)
(* The properties.  The predicates below are those of the specification:   *)
(* a valid name is non-empty after trimming, a valid age is positive, a    *)
(* well-formed e-mail is one both validators accept.                       *)
(***************************************************************************)
Blank(n) == \A i \in 1 .. Len(n) : n[i] = " "

WellFormed(e) == EmailStrOk(e) /\ MarshmallowEmailOk(e)

\* no "@", or no dot in what follows the last "@"
LacksAtOrDot(e) ==
    \/ LastIndex(e, "@") = 0
    \/ FirstIndex(After(e, LastIndex(e, "@")), ".") = 0

\* the domain of the address has no upper-case letter
DomainLowerCase(e) == \A i \in (FirstIndex(e, "@") + 1) .. Len(e) : e[i] # "B"

Rendered(n, a, e) == n \o <<" ">> \o IntToStr(a) \o <<" ">> \o e

MarshmallowName ==
    <<"P", "e", "r", "s", "o", "n", "W", "i", "t", "h",
      "M", "a", "r", "s", "h", "m", "a", "l", "l", "o", "w">>

TypeName(v) ==
    CASE v = "dataclass" -> DataclassName
      [] v = "pydantic" -> PydanticName
      [] v = "marshmallow" -> MarshmallowName
      [] v = "attrs" -> AttrsName

\* construction has ended, with all three fields, or some of them, supplied
Constructed == variant \in Variants /\ pc \in {"record", "rejected"}
AllGiven == DOMAIN kwargs = Fields

\* C1: in every variant, an input with age <= 0 (name and email valid) is
\* rejected and no record is produced.
C1_NonPositiveAgeRejected ==
    (/\ Constructed
     /\ AllGiven
     /\ kwargs["age"] <= 0
     /\ ~Blank(kwargs["name"])
     /\ WellFormed(kwargs["email"]))
        => (pc = "rejected" /\ obj = NoObj)

\* C2: in every variant, an empty or whitespace-only name is rejected with a
\* name error, whatever the age and the email.
C2_BlankNameRejected ==
    (Constructed /\ AllGiven /\ Blank(kwargs["name"]))
        => (/\ pc = "rejected"
            /\ obj = NoObj
            /\ (kwargs["age"] > 0 /\ WellFormed(kwargs["email"])) => "name" \in errors)

\* C3: in every variant, an email without "@" or without a dotted domain
\* (the empty string included) is rejected and no record is produced.
C3_MalformedEmailRejected ==
    (/\ Constructed
     /\ AllGiven
     /\ LacksAtOrDot(kwargs["email"]))
        => (/\ pc = "rejected"
            /\ obj = NoObj
            /\ (~Blank(kwargs["name"]) /\ kwargs["age"] > 0) => "email" \in errors)

\* C4: in every variant, a valid input (n, a, e) is accepted and the str of
\* the value returned is the text "n a e".
C4_RenderIsNameAgeEmail ==
    (/\ Constructed
     /\ AllGiven
     /\ ~Blank(kwargs["name"])
     /\ kwargs["age"] > 0
     /\ WellFormed(kwargs["email"]))
        => (/\ pc = "record"
            /\ Str(variant, obj) = Rendered(kwargs["name"], kwargs["age"], kwargs["email"]))

\* C5: a record is immutable: no step changes the fields of an existing
\* record.
C5_RecordImmutable ==
    [][(pc \in {"record", "written"}) => (obj' = obj)]_vars

\* C6: in every variant, the repr of a created record is
\* "<TypeName>(<name> <age> <email>)".
C6_ReprIsTypeNameFields ==
    (variant \in Variants /\ pc = "record")
        => Repr(variant, obj)
               = TypeName(variant) \o <<"(">>
                 \o Rendered(obj["name"], obj["age"], obj["email"]) \o <<")">>

\* C7: in every variant, a call that supplies a valid name and omits age or
\* email is rejected: no default fills the missing field.
C7_NoDefaultSubstitution ==
    (/\ Constructed
     /\ Given(kwargs, "name")
     /\ ~Blank(kwargs["name"])
     /\ ~AllGiven)
        => pc = "rejected"

\* C8 as stated: on age <= 0 (name and email valid) Pydantic and attrs reject,
\* dataclass and Marshmallow accept.
C8_AsStated ==
    (/\ Constructed
     /\ AllGiven
     /\ kwargs["age"] <= 0
     /\ ~Blank(kwargs["name"])
     /\ WellFormed(kwargs["email"]))
        => (/\ variant \in {"pydantic", "attrs"} => pc = "rejected"
            /\ variant \in {"dataclass", "marshmallow"} => pc = "record")

\* C8 (amended): exactly two variants perform no age-positivity check, and they
\* are dataclass and attrs: with age <= 0 they return a record holding that
\* age whenever the name is non-empty.  Pydantic and Marshmallow reject every
\* input with age <= 0: Pydantic reports the age field, Marshmallow's schema
\* hook reports "_schema" when no field failed.
C8_AgeCheckedByPydanticAndMarshmallow ==
    (Constructed /\ Given(kwargs, "age") /\ kwargs["age"] <= 0)
        => (/\ variant = "pydantic" => (pc = "rejected" /\ "age" \in errors)
            /\ variant = "marshmallow"
                   => (/\ pc = "rejected"
                       /\ errors = {"_schema"} \/ errors \cap Fields # {}
                       /\ (AllGiven /\ kwargs["name"] # <<>>
                           /\ MarshmallowEmailOk(kwargs["email"]))
                              => errors = {"_schema"})
            /\ variant \in {"dataclass", "attrs"}
                   => (/\ pc = "record" <=> kwargs["name"] # <<>>
                       /\ pc = "record" => obj["age"] = kwargs["age"]))

C8_Witness ==
    /\ variant = "marshmallow"
    /\ pc = "rejected"
    /\ AllGiven
    /\ kwargs["age"] = 0
    /\ errors = {"_schema"}

\* C9: the wrapped function runs iff every argument paired with a declared
\* type is an instance of it and follows is a non-empty pattern matching the
\* function's name; otherwise TypeError (types) or ValueError (name policy) is
\* raised; with follows = None the function never runs.
C9_TypeCheckRunsIffTypesAndName ==
    (variant = "decorator" /\ pc # "call")
        => LET typesMatch ==
                   \A i \in 1 .. Len(deco.args) :
                       i <= Len(deco.types)
                           => \/ deco.args[i] = deco.types[i]
                              \/ (deco.args[i] = "bool" /\ deco.types[i] = "int")
               nameMatches ==
                   /\ deco.follows.cls = "str"
                   /\ deco.follows.val # <<>>
                   /\ ReMatch(deco.follows.val, deco.fname)
           IN  /\ ran <=> (typesMatch /\ nameMatches)
               /\ ran <=> pc = "executed"
               /\ ran <=> exc = "None"
               /\ ~typesMatch => exc = "TypeError"
               /\ (typesMatch /\ ~nameMatches) => exc = "ValueError"
               /\ deco.follows = PyNone => ~ran

C9_Witness ==
    /\ variant = "decorator"
    /\ pc = "executed"
    /\ ran
    /\ Len(deco.args) = 2
    /\ Len(deco.types) = 1
    /\ deco.args[1] = "bool"

====
